---- MODULE Spec2Model ----
(***************************************************************************)
(* A model of the Adaptive Deadline I/O Scheduler (src/adios.c): the       *)
(* per-category latency model, the deadline index, the two batch-queue     *)
(* pages and the dispatcher.                                               *)
(*                                                                         *)
(* Time is counted in milliseconds (the source counts nanoseconds and      *)
(* jiffies): 16000000ULL ns is 16, 2ULL * NSEC_PER_MSEC is 2, and          *)
(* msecs_to_jiffies(n) is n. Sizes are counted in bytes.                   *)
(***************************************************************************)
EXTENDS Integers, Sequences, FiniteSets, TLC

\* ------------------------------------------------------------- bounds
\* Requests the host allocates over a run.
MaxOps == 3
\* Clock ticks over a run; each tick advances jiffies by TickMs.
MaxTicks == 1
\* Bursts of completions the latency model is given on its own.
MaxBursts == 3
\* The largest size a bio merge may grow a request to.
MaxBytes == 8192
\* Callers that run at the same time, and the calls each of them makes.
MaxCpus == 2
MaxCalls == 2
MaxPageSamples == 2
MaxProbeLatency == 160

\* ---------------------------------------------------------- constants
ADIOS_READ == 0
ADIOS_WRITE == 1
ADIOS_DISCARD == 2
ADIOS_OTHER == 3
ADIOS_NUM_OPTYPES == 4
ADIOS_NUM_BQ_PAGES == 2
LM_BLOCK_SIZE_THRESHOLD == 4096
LM_SAMPLES_THRESHOLD == 1024
LM_INTERVAL_THRESHOLD == 1500
LM_OUTLIER_PERCENTILE == 99
LM_NUM_BUCKETS == 64

OpTypes == 0 .. (ADIOS_NUM_OPTYPES - 1)
Pages == 0 .. (ADIOS_NUM_BQ_PAGES - 1)
OpIds == 1 .. MaxOps
\* The NULL request.
NoRq == 0

\* adios_latency_targets[] as initialized, in milliseconds.
InitLatencyTargets ==
    [t \in OpTypes |->
        CASE t = ADIOS_READ -> 2
          [] t = ADIOS_WRITE -> 750
          [] t = ADIOS_DISCARD -> 5000
          [] OTHER -> 0]

\* adios_batch_size_limit[] as initialized.
InitBatchSizeLimit ==
    [t \in OpTypes |->
        CASE t = ADIOS_READ -> 64
          [] t = ADIOS_WRITE -> 32
          [] OTHER -> 1]

\* global_latency_window as initialized, in milliseconds.
InitLatencyWindow == 16
\* bq_refill_below_ratio as initialized.
InitRefillRatio == 15

\* ------------------------------------------------------ input alphabets
\* The requests the host inserts into the deadline index: <<optype, blk_rq_bytes>>,
\* of no bytes, at the size threshold and above it.
InsertKinds ==
    {<<ADIOS_READ, 0>>, <<ADIOS_READ, LM_BLOCK_SIZE_THRESHOLD>>,
     <<ADIOS_READ, 2 * LM_BLOCK_SIZE_THRESHOLD>>,
     <<ADIOS_WRITE, LM_BLOCK_SIZE_THRESHOLD>>}
\* A request inserted at the head goes to the priority lane; the scheduler
\* reads neither its optype nor its size.
HeadKinds == {<<ADIOS_OTHER, 0>>}
\* The size of a bio the host merges into a queued request.
BioBytes == LM_BLOCK_SIZE_THRESHOLD
\* now - rq->io_start_time_ns at completion, in milliseconds.
Latencies == {7, 20}
\* The clock advance of one tick, in milliseconds.
TickMs == LM_INTERVAL_THRESHOLD

\* ------------------------------------------------------- latency model
ZeroBucket == [count |-> 0, sum_latency |-> 0, sum_block_size |-> 0]

\* A bucket array is kept sparse: an index outside the domain is a zeroed bucket.
NoBuckets == [i \in {} |-> ZeroBucket]

BucketAt(b, i) == IF i \in DOMAIN b THEN b[i] ELSE ZeroBucket

InitModel ==
    [base |-> 0, slope |-> 0,
     small_sum_delay |-> 0, small_count |-> 0,
     large_sum_delay |-> 0, large_sum_block_size |-> 0,
     last_updated_jiffies |-> 0,
     small_bucket |-> NoBuckets, large_bucket |-> NoBuckets]

\* For predicted > 0. The three ranges of the ratio measured / predicted.
latency_model_input_bucket_index(measured, predicted) ==
    IF measured < predicted * 2 THEN (measured * 20) \div predicted
    ELSE IF measured < predicted * 5 THEN (measured * 10) \div predicted + 20
    ELSE (measured * 3) \div predicted + 40

RECURSIVE SumField(_, _, _)
\* The sum of field f of the buckets with an index in idx.
SumField(b, idx, f) ==
    IF idx = {} THEN 0
    ELSE LET i == CHOOSE x \in idx : TRUE
         IN BucketAt(b, i)[f] + SumField(b, idx \ {i}, f)

BucketCount(b) == SumField(b, DOMAIN b, "count")

latency_model_count_small_buckets(model) == BucketCount(model.small_bucket)

latency_model_count_large_buckets(model) == BucketCount(model.large_bucket)

\* The running count after bucket i of the first loop.
Cumulative(b, i) == SumField(b, {j \in DOMAIN b : j <= i}, "count")

\* The first bucket at which the running count reaches threshold_count
\* (the loop's break); the count is reached at the last bucket at the latest.
OutlierThresholdBucket(b, threshold_count) ==
    LET hit == {i \in 0 .. (LM_NUM_BUCKETS - 1) : Cumulative(b, i) >= threshold_count}
    IN IF hit = {} THEN 0 ELSE CHOOSE i \in hit : \A j \in hit : i <= j

OutlierPercentile(count_all) == IF count_all THEN 100 ELSE LM_OUTLIER_PERCENTILE

\* The threshold count without the outlier percentile.
ThresholdCount_All(total_count, count_all) == total_count

ThresholdCount(total_count, count_all) ==
    (total_count * OutlierPercentile(count_all)) \div 100

\* Proportional with the threshold bucket's share left out.
Proportional_Dropped(bucket, f, remaining_count) == 0

\* The threshold bucket's share: (field * remaining_count) / count.
Proportional(bucket, f, remaining_count) ==
    IF bucket.count > 0 THEN (bucket[f] * remaining_count) \div bucket.count ELSE 0

\* The second loop's total of field f over the buckets before the threshold one.
SumBelow(b, otb, f) == SumField(b, {j \in DOMAIN b : j < otb}, f)

\* threshold_count - (cumulative_count - bucket->count) at the threshold bucket.
RemainingCount(b, otb, threshold_count) ==
    threshold_count - (Cumulative(b, otb) - BucketAt(b, otb).count)

\* The second loop and the accumulation of latency_model_update_small_buckets.
AccumulateSmall(model, b, threshold_count, otb) ==
    [model EXCEPT
        !.small_sum_delay =
            @ + SumBelow(b, otb, "sum_latency")
              + Proportional(BucketAt(b, otb), "sum_latency",
                             RemainingCount(b, otb, threshold_count)),
        !.small_count =
            @ + SumBelow(b, otb, "count") + RemainingCount(b, otb, threshold_count),
        !.small_bucket = NoBuckets]

latency_model_update_small_buckets(model, total_count, count_all) ==
    AccumulateSmall(model, model.small_bucket,
                    ThresholdCount(total_count, count_all),
                    OutlierThresholdBucket(model.small_bucket,
                                           ThresholdCount(total_count, count_all)))

\* sum_latency - intercept, added only when sum_latency is the larger.
AboveIntercept(sum_latency, intercept) ==
    IF sum_latency > intercept THEN sum_latency - intercept ELSE 0

\* The second loop and the accumulation of latency_model_update_large_buckets.
AccumulateLarge(model, b, threshold_count, otb) ==
    [model EXCEPT
        !.large_sum_delay =
            @ + AboveIntercept(
                    SumBelow(b, otb, "sum_latency")
                    + Proportional(BucketAt(b, otb), "sum_latency",
                                   RemainingCount(b, otb, threshold_count)),
                    model.base * threshold_count),
        !.large_sum_block_size =
            @ + SumBelow(b, otb, "sum_block_size")
              + Proportional(BucketAt(b, otb), "sum_block_size",
                             RemainingCount(b, otb, threshold_count)),
        !.large_bucket = NoBuckets]

latency_model_update_large_buckets(model, total_count, count_all) ==
    AccumulateLarge(model, model.large_bucket,
                    ThresholdCount(total_count, count_all),
                    OutlierThresholdBucket(model.large_bucket,
                                           ThresholdCount(total_count, count_all)))

DIV_ROUND_UP(n, d) == (n + d - 1) \div d

\* time_elapsed without the comparison of the clock with the last update.
TimeElapsed_Always(model, now) == TRUE

TimeElapsed(model, now) ==
    model.base = 0 \/ model.last_updated_jiffies + LM_INTERVAL_THRESHOLD <= now

\* The condition under which latency_model_update processes the small buckets.
SmallDue(model, small_count, time_elapsed) ==
    small_count # 0
    /\ (time_elapsed \/ LM_SAMPLES_THRESHOLD <= small_count \/ model.base = 0)

\* The condition under which latency_model_update processes the large buckets.
LargeDue(model, large_count, time_elapsed) ==
    large_count # 0
    /\ (time_elapsed \/ LM_SAMPLES_THRESHOLD <= large_count \/ model.slope = 0)

ProcessSmall(model, small_count, time_elapsed) ==
    IF SmallDue(model, small_count, time_elapsed)
    THEN latency_model_update_small_buckets(model, small_count, model.base = 0)
    ELSE model

ProcessLarge(model, large_count, time_elapsed) ==
    IF LargeDue(model, large_count, time_elapsed)
    THEN latency_model_update_large_buckets(model, large_count, model.slope = 0)
    ELSE model

UpdateBase(model, small_processed) ==
    IF small_processed /\ model.small_count # 0
    THEN [model EXCEPT !.base = model.small_sum_delay \div model.small_count]
    ELSE model

UpdateSlope(model, large_processed) ==
    IF large_processed /\ model.large_sum_block_size # 0
    THEN [model EXCEPT !.slope =
              model.large_sum_delay \div DIV_ROUND_UP(model.large_sum_block_size, 1024)]
    ELSE model

UpdateJiffies(model, time_elapsed, now) ==
    IF time_elapsed THEN [model EXCEPT !.last_updated_jiffies = now] ELSE model

\* large_processed is declared without an initializer: when the large buckets
\* are not processed its value is whatever the stack held, here `garbage'.
LargeProcessed(large_due, garbage) == IF large_due THEN TRUE ELSE garbage

\* latency_model_update after its three reads of the model: time_elapsed and
\* the two bucket counts.
UpdateWith(model, now, garbage, time_elapsed, small_count, large_count) ==
    UpdateJiffies(
        UpdateSlope(
            UpdateBase(
                ProcessLarge(ProcessSmall(model, small_count, time_elapsed),
                             large_count, time_elapsed),
                SmallDue(model, small_count, time_elapsed)),
            LargeProcessed(LargeDue(model, large_count, time_elapsed), garbage)),
        time_elapsed, now)

latency_model_update(model, now, garbage) ==
    UpdateWith(model, now, garbage, TimeElapsed(model, now),
               latency_model_count_small_buckets(model),
               latency_model_count_large_buckets(model))

ClampBucket(bucket_index) ==
    IF bucket_index >= LM_NUM_BUCKETS THEN LM_NUM_BUCKETS - 1 ELSE bucket_index

AddSample(b, i, latency, block_size) ==
    LET old == BucketAt(b, i)
        new == [count |-> old.count + 1,
                sum_latency |-> old.sum_latency + latency,
                sum_block_size |-> old.sum_block_size + block_size]
    IN [j \in DOMAIN b \cup {i} |-> IF j = i THEN new ELSE b[j]]

\* The bucket of a small sample: the reference is the base, 1 while it is zero.
SmallBucketIndex(model, latency) ==
    ClampBucket(latency_model_input_bucket_index(
                    latency, IF model.base # 0 THEN model.base ELSE 1))

\* After a small sample is added: the update that follows while the base is zero.
SmallInput(model, now, garbage) ==
    IF model.base = 0 THEN latency_model_update(model, now, garbage) ELSE model

\* The outcome of one sample: the model afterwards, and whether the division
\* of the bucket index trapped. A division by a zero reference is undefined:
\* the build either traps (trap = TRUE) or yields a zero quotient.
latency_model_input(model, block_size, latency, predicted_latency, now, trap, garbage) ==
    IF block_size <= LM_BLOCK_SIZE_THRESHOLD
    THEN [model |-> SmallInput(
                        [model EXCEPT !.small_bucket =
                             AddSample(@, SmallBucketIndex(model, latency), latency, 0)],
                        now, garbage),
          oops |-> FALSE]
    ELSE IF model.base = 0 THEN [model |-> model, oops |-> FALSE]
    ELSE IF predicted_latency = 0
    THEN IF trap THEN [model |-> model, oops |-> TRUE]
         ELSE [model |-> [model EXCEPT !.large_bucket =
                              AddSample(@, ClampBucket(40), latency, block_size)],
               oops |-> FALSE]
    ELSE LET i == ClampBucket(
                      latency_model_input_bucket_index(latency, predicted_latency))
         IN [model |-> [model EXCEPT !.large_bucket =
                            AddSample(@, i, latency, block_size)],
             oops |-> FALSE]

\* div_u64 rounds down.
latency_model_predict(model, block_size) ==
    IF block_size > LM_BLOCK_SIZE_THRESHOLD
    THEN model.base + model.slope * ((block_size - LM_BLOCK_SIZE_THRESHOLD) \div 1024)
    ELSE model.base

\* ------------------------------------------------------------- state
VARIABLES
    rq,                       \* the host's requests and their adios_rq_data
    dl_queue,                 \* ad->dl_queue, in tree order (rb_first first)
    prio_queue,               \* ad->prio_queue
    batch_queue,              \* ad->batch_queue[page][optype]
    batch_count,              \* ad->batch_count[page][optype]
    bq_page,                  \* ad->bq_page
    more_bq_ready,            \* ad->more_bq_ready
    total_predicted_latency,  \* ad->total_predicted_latency
    latency_model,            \* ad->latency_model[optype]
    timer_pending,            \* ad->timer is armed
    jiffies,                  \* the clock
    adios_latency_targets,
    adios_batch_size_limit,
    global_latency_window,
    bq_refill_below_ratio,
    oops,                     \* the kernel stopped on a trap
    call,                     \* what the step did, when it was a dispatch call
    phase,                    \* "admit" until the first dispatch call, then "drain"
                              \* until the next insertion, then "mixed"
    lm_hist,                  \* the samples the latency models were given
    cpu,                      \* where each concurrent caller stands in its path
    lock_owner,               \* the holder of ad->lock, model->lock, model->buckets_lock
    access                    \* the model fields the step read or wrote, and
                              \* the locks their reader or writer held

vars == <<rq, dl_queue, prio_queue, batch_queue, batch_count, bq_page,
          more_bq_ready, total_predicted_latency, latency_model, timer_pending,
          jiffies, adios_latency_targets, adios_batch_size_limit,
          global_latency_window, bq_refill_below_ratio, oops, call, phase,
          lm_hist, cpu, lock_owner, access>>

\* The variables of the callers that run concurrently, step by step.
lockvars == <<cpu, lock_owner, access>>

tunables == <<adios_latency_targets, adios_batch_size_limit,
              global_latency_window, bq_refill_below_ratio>>

\* A request before the host allocates it; adios_prepare_request zeroes the
\* adios_rq_data (deadline, predicted_latency, block_size). rd tells that
\* elv.priv[1] points to an adios_rq_data; it is FALSE (NULL) for a request
\* whose kmem_cache_zalloc failed.
FreeRq ==
    [life |-> "free", op |-> ADIOS_OTHER, bytes |-> 0, start_time_ns |-> 0,
     deadline |-> 0, predicted_latency |-> 0, block_size |-> 0, rd |-> TRUE]

\* A request the host has freed: merged into another one, or completed.
GoneRq(how) == [FreeRq EXCEPT !.life = how]

\* No sample yet: bursts counts the completions observed, uniform tells that
\* every sample so far was small with latency l0 and no reset came between,
\* clean that the models were reset and no sample came since.
NoSamples == [bursts |-> 0, uniform |-> TRUE, l0 |-> 0, clean |-> FALSE]

\* No write to an attribute: attr names the attribute written, arg the number
\* kstrto* parsed, ret what the store function returned.
NoStore == [attr |-> "none", arg |-> <<>>, ret |-> "none"]

\* front is the request a front merge repositioned in the step.
NoCall ==
    [dispatch |-> FALSE, ret |-> NoRq, fills |-> <<>>, flips |-> 0,
     store |-> NoStore, front |-> NoRq]

\* The concurrent callers, and the categories whose models they work on.
Cpus == 1 .. MaxCpus
NoCpu == 0
LockTypes == {ADIOS_READ}

\* A caller outside every path: pc is its place, t the category of the model
\* it works on, small_processed, large_processed and time_elapsed the locals
\* of latency_model_update, bootstrap tells that the update was called by
\* latency_model_input, calls counts the calls it has made.
IdleCpu ==
    [pc |-> "idle", t |-> ADIOS_READ, small_processed |-> FALSE,
     large_processed |-> FALSE, time_elapsed |-> FALSE, bootstrap |-> FALSE,
     calls |-> 0]

\* Every spinlock as spin_lock_init leaves it.
NoOwner ==
    [ad |-> NoCpu, lock |-> [t \in LockTypes |-> NoCpu],
     buckets_lock |-> [t \in LockTypes |-> NoCpu]]

Init ==
    /\ rq = [o \in OpIds |-> FreeRq]
    /\ dl_queue = <<>>
    /\ prio_queue = <<>>
    /\ batch_queue = [p \in Pages |-> [t \in OpTypes |-> <<>>]]
    /\ batch_count = [p \in Pages |-> [t \in OpTypes |-> 0]]
    /\ bq_page = 0
    /\ more_bq_ready = FALSE
    /\ total_predicted_latency = 0
    /\ latency_model = [t \in OpTypes |-> InitModel]
    /\ timer_pending = FALSE
    /\ jiffies = 0
    /\ adios_latency_targets = InitLatencyTargets
    /\ adios_batch_size_limit = InitBatchSizeLimit
    /\ global_latency_window = InitLatencyWindow
    /\ bq_refill_below_ratio = InitRefillRatio
    /\ oops = FALSE
    /\ call = NoCall
    /\ phase = "admit"
    /\ lm_hist = NoSamples
    /\ cpu = [c \in Cpus |-> IdleCpu]
    /\ lock_owner = NoOwner
    /\ access = {}

\* ------------------------------------------------------ sequence helpers
SeqRemove(s, o) == SelectSeq(s, LAMBDA x : x # o)

SeqSet(s) == {s[i] : i \in 1 .. Len(s)}

InsertAt(s, k, o) == SubSeq(s, 1, k - 1) \o <<o>> \o SubSeq(s, k, Len(s))

\* --------------------------------------------------------- deadline index
\* The walk of adios_add_rq_rb: the new node goes left of a node whose
\* deadline is smaller (diff < 0) and right of every other node, so in tree
\* order it stands before the first node with a smaller deadline.
RbInsertPosition(q, dl, deadline) ==
    LET smaller == {i \in 1 .. Len(q) : dl[q[i]].deadline < deadline}
    IN IF smaller = {} THEN Len(q) + 1
       ELSE CHOOSE i \in smaller : \A j \in smaller : i <= j

\* adios_add_rq_rb without its assignment to rd->block_size: the prediction
\* is made from the size stored at the insertion.
PredictedRq_StaleSize(r, models, targets) ==
    [r EXCEPT !.predicted_latency = latency_model_predict(models[r.op], r.block_size),
              !.deadline = r.start_time_ns + targets[r.op]
                           + latency_model_predict(models[r.op], r.block_size)]

\* The adios_rq_data of request o as adios_add_rq_rb computes it.
PredictedRq(r, models, targets) ==
    LET predicted == latency_model_predict(models[r.op], r.bytes)
    IN [r EXCEPT !.block_size = r.bytes,
                 !.predicted_latency = predicted,
                 !.deadline = r.start_time_ns + targets[r.op] + predicted]

\* rb_first() of the deadline tree, NoRq when the tree is empty.
adios_next_request(q) == IF q = <<>> THEN NoRq ELSE q[1]

\* adios_del_rq_rb without its rb_erase.
adios_del_rq_rb_KeepRb(q, o) == q

adios_del_rq_rb(q, o) == SeqRemove(q, o)

\* ------------------------------------------------------------ scheduler
\* The part of struct adios_data a dispatch call works on, with the log of
\* the call's fills and flips.
AD ==
    [dl_queue |-> dl_queue, prio_queue |-> prio_queue,
     batch_queue |-> batch_queue, batch_count |-> batch_count,
     bq_page |-> bq_page, more_bq_ready |-> more_bq_ready,
     total_predicted_latency |-> total_predicted_latency,
     fills |-> <<>>, flips |-> 0]

\* list_del_init(&rq->queuelist) on whatever list holds the request.
list_del_init(S, o) ==
    [S EXCEPT !.prio_queue = SeqRemove(@, o),
              !.batch_queue = [p \in Pages |-> [t \in OpTypes |-> SeqRemove(@[p][t], o)]]]

adios_remove_request(S, o) ==
    LET S1 == list_del_init(S, o)
    IN [S1 EXCEPT !.dl_queue = adios_del_rq_rb(@, o)]

adios_reset_batch_counts(S, page) ==
    [S EXCEPT !.batch_count[page] = [t \in OpTypes |-> 0]]

\* The test of the fill pass without its comparison with the latency window.
FillStops_NoBudget(S, page, o, count, lat) ==
    count # 0
    /\ (\/ latency_model[rq[o].op].base = 0
        \/ S.batch_count[page][rq[o].op] >= adios_batch_size_limit[rq[o].op])

\* The test of the fill pass without its look at the base of the category.
FillStops_NoBase(S, page, o, count, lat) ==
    count # 0
    /\ (\/ S.batch_count[page][rq[o].op] >= adios_batch_size_limit[rq[o].op]
        \/ lat > global_latency_window)

\* The test that ends a fill pass before request o is taken.
FillStops(S, page, o, count, lat) ==
    count # 0
    /\ (\/ latency_model[rq[o].op].base = 0
        \/ S.batch_count[page][rq[o].op] >= adios_batch_size_limit[rq[o].op]
        \/ lat > global_latency_window)

RECURSIVE FillLoop(_, _, _, _)
\* The while loop of adios_fill_batch_queues: the state afterwards and the
\* requests taken, in order.
FillLoop(S, page, lat, taken) ==
    LET o == adios_next_request(S.dl_queue)
    IN IF o = NoRq THEN [ad |-> S, taken |-> taken]
       ELSE LET lat2 == lat + rq[o].predicted_latency
            IN IF FillStops(S, page, o, Len(taken), lat2)
               THEN [ad |-> S, taken |-> taken]
               ELSE LET S1 == adios_remove_request(S, o)
                        S2 == [S1 EXCEPT
                                 !.batch_queue[page][rq[o].op] = Append(@, o),
                                 !.batch_count[page][rq[o].op] = @ + 1,
                                 !.total_predicted_latency = @ + rq[o].predicted_latency]
                    IN FillLoop(S2, page, lat2, Append(taken, o))

\* A fill that took requests and leaves more_bq_ready as it was.
MoreReady_Unset(ready, count) == ready

\* more_bq_ready after a fill that took count requests.
MoreReady(ready, count) == IF count # 0 THEN TRUE ELSE ready

\* adios_fill_batch_queues(ad, tpl) with lat the value it starts from.
adios_fill_batch_queues(S, lat) ==
    LET page == (S.bq_page + 1) % ADIOS_NUM_BQ_PAGES
        f == FillLoop(adios_reset_batch_counts(S, page), page, lat, <<>>)
        count == Len(f.taken)
        entry == [page |-> page, lat |-> lat, taken |-> f.taken,
                  before |-> S.total_predicted_latency,
                  after |-> f.ad.total_predicted_latency,
                  held |-> Len(S.batch_queue[page][ADIOS_READ])
                           + Len(S.batch_queue[page][ADIOS_WRITE])
                           + Len(S.batch_queue[page][ADIOS_DISCARD])
                           + Len(S.batch_queue[page][ADIOS_OTHER])]
    IN [f.ad EXCEPT !.more_bq_ready = MoreReady(@, count),
                    !.fills = Append(@, entry)]

adios_flip_bq(S) ==
    [S EXCEPT !.more_bq_ready = FALSE,
              !.bq_page = (@ + 1) % 2,
              !.flips = @ + 1]

\* The last non-empty sub-queue of the active page, in enumeration order.
FirstBusy_Last(S) ==
    LET busy == {t \in OpTypes : S.batch_queue[S.bq_page][t] # <<>>}
    IN IF busy = {} THEN ADIOS_NUM_OPTYPES
       ELSE CHOOSE t \in busy : \A u \in busy : t >= u

\* The first non-empty sub-queue of the active page, in enumeration order.
FirstBusy(S) ==
    LET busy == {t \in OpTypes : S.batch_queue[S.bq_page][t] # <<>>}
    IN IF busy = {} THEN ADIOS_NUM_OPTYPES
       ELSE CHOOSE t \in busy : \A u \in busy : t <= u

\* The head of sub-queue t returned without list_del_init.
TakeFromBq_NoDel(S, t) ==
    [ad |-> S, ret |-> Head(S.batch_queue[S.bq_page][t])]

\* list_first_entry and list_del_init on sub-queue t of the active page.
TakeFromBq(S, t) ==
    [ad |-> list_del_init(S, Head(S.batch_queue[S.bq_page][t])),
     ret |-> Head(S.batch_queue[S.bq_page][t])]

RECURSIVE DispatchLoop(_, _)
\* The while loop of adios_dispatch_from_bq.
DispatchLoop(S, fill_tried) ==
    IF FirstBusy(S) < ADIOS_NUM_OPTYPES THEN TakeFromBq(S, FirstBusy(S))
    ELSE IF S.more_bq_ready THEN DispatchLoop(adios_flip_bq(S), fill_tried)
    ELSE IF fill_tried THEN [ad |-> S, ret |-> NoRq]
    ELSE LET S1 == adios_fill_batch_queues(S, S.total_predicted_latency)
             filled == Len(S1.fills[Len(S1.fills)].taken) # 0
         IN DispatchLoop(IF filled THEN adios_flip_bq(S1) ELSE S1, TRUE)

\* The test of the ahead-of-time refill.
RefillEarly(S, tpl) ==
    ~S.more_bq_ready
    /\ tpl < (global_latency_window * bq_refill_below_ratio) \div 100

\* adios_dispatch_from_bq without either of its fills.
adios_dispatch_from_bq_NoFill(S) == DispatchLoop(S, TRUE)

\* adios_dispatch_from_bq without fill_tried = true after its first fill.
adios_dispatch_from_bq_FillTwice(S) ==
    IF RefillEarly(S, S.total_predicted_latency)
    THEN DispatchLoop(adios_fill_batch_queues(S, S.total_predicted_latency), FALSE)
    ELSE DispatchLoop(S, FALSE)

adios_dispatch_from_bq(S) ==
    LET tpl == S.total_predicted_latency
    IN IF RefillEarly(S, tpl)
       THEN DispatchLoop(adios_fill_batch_queues(S, tpl), TRUE)
       ELSE DispatchLoop(S, FALSE)

\* adios_dispatch_request without its look at the priority list.
DispatchResult_NoLane(S) == adios_dispatch_from_bq(S)

\* The whole of adios_dispatch_request: the priority lane first.
DispatchResult(S) ==
    IF S.prio_queue # <<>>
    THEN [ad |-> list_del_init(S, Head(S.prio_queue)), ret |-> Head(S.prio_queue)]
    ELSE adios_dispatch_from_bq(S)

adios_has_work ==
    \/ \E p \in Pages : \E t \in OpTypes : batch_queue[p][t] # <<>>
    \/ dl_queue # <<>>
    \/ prio_queue # <<>>

\* ------------------------------------------------------------- actions
SetAD(S) ==
    /\ dl_queue' = S.dl_queue
    /\ prio_queue' = S.prio_queue
    /\ batch_queue' = S.batch_queue
    /\ batch_count' = S.batch_count
    /\ bq_page' = S.bq_page
    /\ more_bq_ready' = S.more_bq_ready
    /\ total_predicted_latency' = S.total_predicted_latency

\* The lowest request the host has not allocated yet.
NextFree(o) == rq[o].life = "free" /\ \A p \in OpIds : p < o => rq[p].life # "free"

\* adios_insert_request of a request that is not merged on insertion.
InsertRequest(o, optype, bytes, at_head) ==
    /\ ~oops
    /\ UNCHANGED lockvars
    /\ NextFree(o)
    /\ LET r0 == [FreeRq EXCEPT !.life = "queued", !.op = optype,
                                !.bytes = bytes, !.start_time_ns = jiffies]
       IN IF at_head
          THEN /\ rq' = [rq EXCEPT ![o] = r0]
               /\ prio_queue' = <<o>> \o prio_queue
               /\ UNCHANGED dl_queue
          ELSE LET r1 == PredictedRq(r0, latency_model, adios_latency_targets)
               IN /\ rq' = [rq EXCEPT ![o] = r1]
                  /\ dl_queue' = InsertAt(dl_queue,
                                          RbInsertPosition(dl_queue, rq, r1.deadline), o)
                  /\ UNCHANGED prio_queue
    /\ phase' = IF phase = "admit" THEN "admit" ELSE "mixed"
    /\ call' = NoCall
    /\ UNCHANGED <<batch_queue, batch_count, bq_page, more_bq_ready,
                   total_predicted_latency, latency_model, timer_pending, jiffies,
                   tunables, lm_hist, oops>>

\* adios_dispatch_request.
DispatchRequest ==
    /\ ~oops
    /\ UNCHANGED lockvars
    /\ LET d == DispatchResult(AD)
       IN /\ SetAD(d.ad)
          /\ call' = [NoCall EXCEPT !.dispatch = TRUE, !.ret = d.ret,
                                     !.fills = d.ad.fills, !.flips = d.ad.flips]
          /\ rq' = IF d.ret = NoRq THEN rq
                   ELSE [rq EXCEPT ![d.ret].life = "started"]
    /\ phase' = IF phase = "admit" THEN "drain" ELSE phase
    /\ UNCHANGED <<latency_model, timer_pending, jiffies, tunables, lm_hist, oops>>

\* adios_insert_request of a request that blk_mq_sched_try_insert_merge merges
\* into the queued request target: adios_merged_requests(q, target, o) removes
\* it, and it is in no structure yet.
InsertMerged(o, optype, bytes, target) ==
    /\ ~oops
    /\ UNCHANGED lockvars
    /\ NextFree(o)
    /\ target \in SeqSet(dl_queue)
    /\ rq[target].op = optype
    /\ rq[target].bytes > 0 /\ bytes > 0
    /\ rq[target].bytes + bytes <= MaxBytes
    /\ SetAD(adios_remove_request(AD, o))
    /\ rq' = [rq EXCEPT ![o] = GoneRq("merged"), ![target].bytes = @ + bytes]
    /\ phase' = IF phase = "admit" THEN "admit" ELSE "mixed"
    /\ call' = NoCall
    /\ UNCHANGED <<latency_model, timer_pending, jiffies, tunables, lm_hist, oops>>

\* adios_merged_requests: the host merged the queued request next into req.
MergedRequests(req, next) ==
    /\ ~oops
    /\ UNCHANGED lockvars
    /\ req # next
    /\ req \in SeqSet(dl_queue) /\ next \in SeqSet(dl_queue)
    /\ rq[req].op = rq[next].op
    /\ rq[req].bytes > 0 /\ rq[next].bytes > 0
    /\ rq[req].bytes + rq[next].bytes <= MaxBytes
    /\ SetAD(adios_remove_request(AD, next))
    /\ rq' = [rq EXCEPT ![next] = GoneRq("merged"), ![req].bytes = @ + rq[next].bytes]
    /\ call' = NoCall
    /\ UNCHANGED <<latency_model, timer_pending, jiffies, tunables, lm_hist, phase, oops>>

\* adios_request_merged: the host merged a bio into the queued request req,
\* at its front (front = TRUE) or at its back.
RequestMerged(req, front) ==
    /\ ~oops
    /\ UNCHANGED lockvars
    /\ req \in SeqSet(dl_queue)
    /\ rq[req].bytes > 0
    /\ rq[req].bytes + BioBytes <= MaxBytes
    /\ LET r0 == [rq[req] EXCEPT !.bytes = @ + BioBytes]
           r1 == PredictedRq(r0, latency_model, adios_latency_targets)
           q1 == adios_del_rq_rb(dl_queue, req)
       IN IF front
          THEN /\ rq' = [rq EXCEPT ![req] = r1]
               /\ dl_queue' = InsertAt(q1, RbInsertPosition(q1, rq, r1.deadline), req)
          ELSE /\ rq' = [rq EXCEPT ![req] = r0]
               /\ UNCHANGED dl_queue
    /\ call' = [NoCall EXCEPT !.front = IF front THEN req ELSE NoRq]
    /\ UNCHANGED <<prio_queue, batch_queue, batch_count, bq_page, more_bq_ready,
                   total_predicted_latency, latency_model, timer_pending, jiffies,
                   tunables, lm_hist, phase, oops>>

\* The model of category t after latency_model_input returned r, and
\* timer_reduce: the timer is armed unless the division trapped.
SampleRecorded(t, r) ==
    /\ latency_model' = [latency_model EXCEPT ![t] = r.model]
    /\ oops' = r.oops
    /\ timer_pending' = IF r.oops THEN timer_pending ELSE TRUE

\* adios_completed_request with its atomic64_sub after the early return: the
\* in-flight total is lowered only when a sample is recorded.
CompletedRequest_SubAfterReturn(o, io_start_time_ns, latency, trap, garbage) ==
    /\ ~oops
    /\ UNCHANGED lockvars
    /\ rq[o].life = "started"
    /\ rq[o].rd
    /\ rq' = [rq EXCEPT ![o] = GoneRq("completed")]
    /\ IF io_start_time_ns = 0 \/ rq[o].block_size = 0
       THEN UNCHANGED <<total_predicted_latency, latency_model, timer_pending, oops>>
       ELSE /\ total_predicted_latency' =
                   total_predicted_latency - rq[o].predicted_latency
            /\ SampleRecorded(rq[o].op,
                              latency_model_input(latency_model[rq[o].op],
                                                  rq[o].block_size, latency,
                                                  rq[o].predicted_latency,
                                                  jiffies, trap, garbage))
    /\ call' = NoCall
    /\ UNCHANGED <<dl_queue, prio_queue, batch_queue, batch_count, bq_page,
                   more_bq_ready, jiffies, tunables, lm_hist, phase>>

\* adios_completed_request of a dispatched request; io_start_time_ns is zero
\* for a request the host never issued, latency is now - io_start_time_ns.
CompletedRequest(o, io_start_time_ns, latency, trap, garbage) ==
    /\ ~oops
    /\ UNCHANGED lockvars
    /\ rq[o].life = "started"
    /\ rq[o].rd
    /\ total_predicted_latency' = total_predicted_latency - rq[o].predicted_latency
    /\ rq' = [rq EXCEPT ![o] = GoneRq("completed")]
    /\ IF io_start_time_ns = 0 \/ rq[o].block_size = 0
       THEN UNCHANGED <<latency_model, timer_pending, oops>>
       ELSE SampleRecorded(rq[o].op,
                           latency_model_input(latency_model[rq[o].op],
                                               rq[o].block_size, latency,
                                               rq[o].predicted_latency,
                                               jiffies, trap, garbage))
    /\ call' = NoCall
    /\ UNCHANGED <<dl_queue, prio_queue, batch_queue, batch_count, bq_page,
                   more_bq_ready, jiffies, tunables, lm_hist, phase>>

\* adios_timer_fn: the armed timer expires.
TimerFn(garbage) ==
    /\ ~oops
    /\ UNCHANGED lockvars
    /\ timer_pending
    /\ timer_pending' = FALSE
    /\ latency_model' = [t \in OpTypes |->
                            latency_model_update(latency_model[t], jiffies, garbage)]
    /\ call' = NoCall
    /\ UNCHANGED <<rq, dl_queue, prio_queue, batch_queue, batch_count, bq_page,
                   more_bq_ready, total_predicted_latency, jiffies, tunables, lm_hist, phase, oops>>

\* The clock advances.
Tick ==
    /\ ~oops
    /\ UNCHANGED lockvars
    /\ jiffies + TickMs <= MaxTicks * TickMs
    /\ jiffies' = jiffies + TickMs
    /\ call' = NoCall
    /\ UNCHANGED <<rq, dl_queue, prio_queue, batch_queue, batch_count, bq_page,
                   more_bq_ready, total_predicted_latency, latency_model,
                   timer_pending, tunables, lm_hist, phase, oops>>

ResetModel(model) ==
    [model EXCEPT !.base = 0, !.slope = 0,
                  !.small_sum_delay = 0, !.small_count = 0,
                  !.large_sum_delay = 0, !.large_sum_block_size = 0]

\* adios_reset_latency_model_store: val is the number written.
ResetLatencyModelStore(val) ==
    /\ ~oops
    /\ UNCHANGED lockvars
    /\ latency_model' = IF val # 1 THEN latency_model
                        ELSE [t \in OpTypes |-> ResetModel(latency_model[t])]
    /\ lm_hist' = IF val # 1 THEN lm_hist
                  ELSE [lm_hist EXCEPT !.uniform = FALSE, !.clean = TRUE]
    /\ call' = NoCall
    /\ UNCHANGED <<rq, dl_queue, prio_queue, batch_queue, batch_count, bq_page,
                   more_bq_ready, total_predicted_latency, timer_pending, jiffies,
                   tunables, phase, oops>>

Insert ==
    \/ \E o \in OpIds, k \in InsertKinds : InsertRequest(o, k[1], k[2], FALSE)
    \/ \E o \in OpIds, k \in HeadKinds : InsertRequest(o, k[1], k[2], TRUE)

Merge ==
    \/ \E o \in OpIds, k \in InsertKinds, target \in OpIds :
           InsertMerged(o, k[1], k[2], target)
    \/ \E req \in OpIds, next \in OpIds : MergedRequests(req, next)
    \/ \E req \in OpIds, front \in BOOLEAN : RequestMerged(req, front)

\* What the host and the build may choose at the completion of request o:
\* choices that the code does not read on o's path are not told apart.
SampleTaken(o, io_start_time_ns) == io_start_time_ns # 0 /\ rq[o].block_size # 0

DividesByZero(o) ==
    /\ rq[o].block_size > LM_BLOCK_SIZE_THRESHOLD
    /\ latency_model[rq[o].op].base # 0
    /\ rq[o].predicted_latency = 0

Bootstraps(o) ==
    rq[o].block_size <= LM_BLOCK_SIZE_THRESHOLD /\ latency_model[rq[o].op].base = 0

Complete ==
    \E o \in OpIds, io_start_time_ns \in {0, 1} :
        \E l \in IF SampleTaken(o, io_start_time_ns) THEN Latencies ELSE {0} :
            \E trap \in IF SampleTaken(o, io_start_time_ns) /\ DividesByZero(o)
                        THEN BOOLEAN ELSE {FALSE} :
                \E g \in IF SampleTaken(o, io_start_time_ns) /\ Bootstraps(o)
                         THEN BOOLEAN ELSE {FALSE} :
                    /\ io_start_time_ns = 0 \/ rq[o].block_size # 0
                    /\ CompletedRequest(o, io_start_time_ns, l, trap, g)

Timer == \E g \in BOOLEAN : TimerFn(g)

Reset == \E val \in {0, 1} : ResetLatencyModelStore(val)

Next ==
    \/ Insert
    \/ Merge
    \/ DispatchRequest
    \/ Complete
    \/ Timer

\* The scheduler: insertion, merging, dispatch, completion and the model timer.
Spec == Init /\ [][Next]_vars

\* ---------------------------------------------- the latency model alone
\* The categories, sizes and burst lengths the model is given on its own.
LMTypes == {ADIOS_READ}
\* <<number of samples, block size>>: one small sample, a burst of small
\* samples that reaches the sample threshold, one large sample. Every sum the
\* model forms from these stays below 2^31, so the arithmetic is exact.
SampleKinds ==
    {<<1, LM_BLOCK_SIZE_THRESHOLD>>,
     <<LM_SAMPLES_THRESHOLD, LM_BLOCK_SIZE_THRESHOLD>>,
     <<1, 2 * LM_BLOCK_SIZE_THRESHOLD>>}

RECURSIVE InputN(_, _, _, _, _, _, _, _)
\* n calls of latency_model_input in a row with the same sample.
InputN(r, n, block_size, latency, predicted_latency, now, trap, garbage) ==
    IF n = 0 \/ r.oops THEN r
    ELSE IF n = 1
    THEN latency_model_input(r.model, block_size, latency, predicted_latency,
                             now, trap, garbage)
    ELSE InputN(InputN(r, n \div 2, block_size, latency, predicted_latency,
                       now, trap, garbage),
                n - (n \div 2), block_size, latency, predicted_latency,
                now, trap, garbage)

\* The sample path of adios_completed_request, n requests of category t in a
\* row: latency_model_input and timer_reduce.
ObserveSamples(t, n, block_size, latency, predicted_latency, trap, garbage) ==
    /\ ~oops
    /\ UNCHANGED lockvars
    /\ lm_hist.bursts < MaxBursts
    /\ SampleRecorded(t, InputN([model |-> latency_model[t], oops |-> FALSE], n,
                                block_size, latency, predicted_latency, jiffies,
                                trap, garbage))
    /\ lm_hist' = [bursts |-> lm_hist.bursts + 1,
                   uniform |-> /\ lm_hist.uniform
                               /\ block_size <= LM_BLOCK_SIZE_THRESHOLD
                               /\ (lm_hist.bursts = 0 \/ latency = lm_hist.l0),
                   l0 |-> IF lm_hist.bursts = 0 THEN latency ELSE lm_hist.l0,
                   clean |-> FALSE]
    /\ call' = NoCall
    /\ UNCHANGED <<rq, dl_queue, prio_queue, batch_queue, batch_count, bq_page,
                   more_bq_ready, total_predicted_latency, jiffies, tunables, phase>>

\* rd->predicted_latency of a completing request: what predict returned when
\* it was inserted, zero while the model was cold.
Predictions(t, block_size) ==
    {0, latency_model_predict(latency_model[t], block_size)}

Observe ==
    \E t \in LMTypes, k \in SampleKinds, l \in Latencies :
        \E p \in IF k[2] <= LM_BLOCK_SIZE_THRESHOLD THEN {0} ELSE Predictions(t, k[2]) :
            \E trap \in IF p = 0 /\ k[2] > LM_BLOCK_SIZE_THRESHOLD
                              /\ latency_model[t].base # 0
                        THEN BOOLEAN ELSE {FALSE} :
                \E g \in IF latency_model[t].base = 0 THEN BOOLEAN ELSE {FALSE} :
                    ObserveSamples(t, k[1], k[2], l, p, trap, g)

NextLM ==
    \/ Observe
    \/ Timer
    \/ Tick
    \/ Reset

\* The latency model under samples, the timer, the clock and the reset command.
SpecLM == Init /\ [][NextLM]_vars

\* ------------------------------------- requests without adios_rq_data
\* The requests of this workload: small Reads through the deadline tree and
\* flushes at the head of the priority list.
AllocKinds == {<<ADIOS_READ, LM_BLOCK_SIZE_THRESHOLD>>}

\* adios_prepare_request when kmem_cache_zalloc returns NULL (elv.priv[1]
\* stays NULL), then adios_insert_request: at the head the request goes on the
\* priority list; otherwise adios_add_rq_rb stores blk_rq_bytes(rq) to
\* rd->block_size with rd = rq_data(rq) = NULL, a store to address 24, on
\* which the kernel traps before the tree is touched.
InsertRequestNoData(o, optype, bytes, at_head) ==
    /\ ~oops
    /\ UNCHANGED lockvars
    /\ NextFree(o)
    /\ LET r0 == [FreeRq EXCEPT !.op = optype, !.bytes = bytes,
                                !.start_time_ns = jiffies, !.rd = FALSE]
       IN IF at_head
          THEN /\ rq' = [rq EXCEPT ![o] = [r0 EXCEPT !.life = "queued"]]
               /\ prio_queue' = <<o>> \o prio_queue
               /\ UNCHANGED oops
          ELSE /\ rq' = [rq EXCEPT ![o] = [r0 EXCEPT !.life = "inserting"]]
               /\ oops' = TRUE
               /\ UNCHANGED prio_queue
    /\ phase' = IF phase = "admit" THEN "admit" ELSE "mixed"
    /\ call' = NoCall
    /\ UNCHANGED <<dl_queue, batch_queue, batch_count, bq_page, more_bq_ready,
                   total_predicted_latency, latency_model, timer_pending, jiffies,
                   tunables, lm_hist>>

\* adios_completed_request of a dispatched request whose elv.priv[1] is NULL:
\* atomic64_sub reads rd->predicted_latency through rd = NULL, and the kernel
\* traps on the load.
CompletedRequestNoData(o) ==
    /\ ~oops
    /\ UNCHANGED lockvars
    /\ rq[o].life = "started"
    /\ ~rq[o].rd
    /\ oops' = TRUE
    /\ rq' = [rq EXCEPT ![o].life = "completing"]
    /\ call' = NoCall
    /\ UNCHANGED <<dl_queue, prio_queue, batch_queue, batch_count, bq_page,
                   more_bq_ready, total_predicted_latency, latency_model,
                   timer_pending, jiffies, tunables, lm_hist, phase>>

InsertAlloc ==
    \/ \E o \in OpIds, k \in AllocKinds : InsertRequest(o, k[1], k[2], FALSE)
    \/ \E o \in OpIds, k \in HeadKinds : InsertRequest(o, k[1], k[2], TRUE)

InsertNoData ==
    \/ \E o \in OpIds, k \in AllocKinds : InsertRequestNoData(o, k[1], k[2], FALSE)
    \/ \E o \in OpIds, k \in HeadKinds : InsertRequestNoData(o, k[1], k[2], TRUE)

CompleteNoData == \E o \in OpIds : CompletedRequestNoData(o)

NextAlloc ==
    \/ InsertAlloc
    \/ InsertNoData
    \/ DispatchRequest
    \/ Complete
    \/ CompleteNoData

\* The scheduler when the allocation of a request's adios_rq_data can fail.
SpecAlloc == Init /\ [][NextAlloc]_vars

\* ------------------------------------------------------ the tunables
\* The number written to a batch_size_limit attribute, as kstrtoul parses it
\* into the unsigned long of a 64-bit build: <<hi, lo>> stands for
\* hi * 2^32 + lo.
LimitValues == {<<0, 0>>, <<0, 1>>, <<1, 0>>}
TuneTypes == {ADIOS_WRITE}
TuneKinds == {<<ADIOS_WRITE, LM_BLOCK_SIZE_THRESHOLD>>}

\* adios_batch_size_limit_##name##_store: the assignment to the unsigned int
\* adios_batch_size_limit[optype] keeps the low 32 bits of max_batch.
BatchSizeLimitStore(optype, hi, lo) ==
    /\ ~oops
    /\ UNCHANGED lockvars
    /\ adios_batch_size_limit' =
           IF hi = 0 /\ lo = 0 THEN adios_batch_size_limit
           ELSE [adios_batch_size_limit EXCEPT ![optype] = lo]
    /\ call' = [NoCall EXCEPT !.store =
                    [attr |-> "batch_size_limit", arg |-> <<optype, hi, lo>>,
                     ret |-> IF hi = 0 /\ lo = 0 THEN "EINVAL" ELSE "count"]]
    /\ UNCHANGED <<rq, dl_queue, prio_queue, batch_queue, batch_count, bq_page,
                   more_bq_ready, total_predicted_latency, latency_model,
                   timer_pending, jiffies, adios_latency_targets,
                   global_latency_window, bq_refill_below_ratio, oops, phase,
                   lm_hist>>

\* The numbers written to bq_refill_below_ratio, as kstrtoint parses them.
RatioValues == {-1, 0, 100, 101}

\* The range test of adios_bq_refill_below_ratio_store without its upper end.
RatioRejected_NoUpper(ratio) == ratio < 0

\* The range test of adios_bq_refill_below_ratio_store.
RatioRejected(ratio) == ratio < 0 \/ ratio > 100

\* adios_bq_refill_below_ratio_store.
BqRefillBelowRatioStore(ratio) ==
    /\ ~oops
    /\ UNCHANGED lockvars
    /\ bq_refill_below_ratio' =
           IF RatioRejected(ratio) THEN bq_refill_below_ratio ELSE ratio
    /\ call' = [NoCall EXCEPT !.store =
                    [attr |-> "bq_refill_below_ratio", arg |-> <<ratio>>,
                     ret |-> IF RatioRejected(ratio) THEN "EINVAL" ELSE "count"]]
    /\ UNCHANGED <<rq, dl_queue, prio_queue, batch_queue, batch_count, bq_page,
                   more_bq_ready, total_predicted_latency, latency_model,
                   timer_pending, jiffies, adios_latency_targets,
                   adios_batch_size_limit, global_latency_window, oops, phase,
                   lm_hist>>

\* The numbers written to global_latency_window, as kstrtoul parses them.
WindowValues == {10}

\* adios_global_latency_window_store: every number is stored.
GlobalLatencyWindowStore(nsec) ==
    /\ ~oops
    /\ UNCHANGED lockvars
    /\ global_latency_window' = nsec
    /\ call' = [NoCall EXCEPT !.store =
                    [attr |-> "global_latency_window", arg |-> <<nsec>>,
                     ret |-> "count"]]
    /\ UNCHANGED <<rq, dl_queue, prio_queue, batch_queue, batch_count, bq_page,
                   more_bq_ready, total_predicted_latency, latency_model,
                   timer_pending, jiffies, adios_latency_targets,
                   adios_batch_size_limit, bq_refill_below_ratio, oops, phase,
                   lm_hist>>

InsertTune == \E o \in OpIds, k \in TuneKinds : InsertRequest(o, k[1], k[2], FALSE)

LimitStore == \E t \in TuneTypes, v \in LimitValues : BatchSizeLimitStore(t, v[1], v[2])

RatioStore == \E ratio \in RatioValues : BqRefillBelowRatioStore(ratio)

WindowStore == \E nsec \in WindowValues : GlobalLatencyWindowStore(nsec)

NextTune ==
    \/ InsertTune
    \/ DispatchRequest
    \/ Complete
    \/ LimitStore
    \/ RatioStore
    \/ WindowStore

\* The scheduler under writes to its tunables.
SpecTune == Init /\ [][NextTune]_vars

\* ------------------------------------------------- concurrent callers
\* The paths that touch a latency model, one statement group at a time, with
\* the spinlocks they take. A caller that asks for a held spinlock waits: its
\* step is not enabled. The scheduler's queues are left out of these paths.

\* What the steps of the callers leave alone.
lockframe ==
    <<rq, dl_queue, prio_queue, batch_queue, batch_count, bq_page, more_bq_ready,
      total_predicted_latency, timer_pending, jiffies, adios_batch_size_limit,
      global_latency_window, bq_refill_below_ratio, oops, call, phase, lm_hist>>

\* The first statement of each path: adios_insert_requests, adios_dispatch_request,
\* latency_model_input (from adios_completed_request), latency_model_update
\* (from adios_timer_fn), adios_reset_latency_model_store and
\* adios_lat_target_##name##_store.
EntryPcs ==
    {"insert_lock", "dispatch_lock", "input_lock", "update_lock", "reset_lock",
     "target_store"}

\* The number written to a lat_target attribute.
TargetValue(t) == InitLatencyTargets[t]

\* The spinlocks of ad and of model t that caller c holds.
LocksHeld(c, t) ==
    (IF lock_owner.ad = c THEN {"ad"} ELSE {})
    \cup (IF lock_owner.lock[t] = c THEN {"lock"} ELSE {})
    \cup (IF lock_owner.buckets_lock[t] = c THEN {"buckets_lock"} ELSE {})

\* Caller c reads or writes the fields of model t.
Accessed(c, t, fields) ==
    {[cpu |-> c, t |-> t, field |-> f, held |-> LocksHeld(c, t)] : f \in fields}

\* spin_unlock_irqrestore(&model->buckets_lock) left out.
ReleasedBuckets_Kept(owner, t) == owner

\* spin_unlock_irqrestore(&model->buckets_lock).
ReleasedBuckets(owner, t) == [owner EXCEPT !.buckets_lock[t] = NoCpu]

\* Caller c goes on to pc; the step touches no model field.
LockStep(c, pc, owner) ==
    /\ cpu' = [cpu EXCEPT ![c].pc = pc]
    /\ lock_owner' = owner
    /\ access' = {}
    /\ UNCHANGED <<latency_model, adios_latency_targets, lockframe>>

\* Caller c reads the fields of model t and goes on to pc.
ReadStep(c, pc, fields) ==
    /\ cpu' = [cpu EXCEPT ![c].pc = pc]
    /\ access' = Accessed(c, cpu[c].t, fields)
    /\ UNCHANGED <<lock_owner, latency_model, adios_latency_targets, lockframe>>

\* A caller enters a path on the model of category t.
LockCall(c, pc, t) ==
    /\ cpu[c].pc = "idle"
    /\ cpu[c].calls < MaxCalls
    /\ cpu' = [cpu EXCEPT ![c] = [IdleCpu EXCEPT !.pc = pc, !.t = t,
                                                 !.calls = cpu[c].calls + 1]]
    /\ access' = {}
    /\ UNCHANGED <<lock_owner, latency_model, adios_latency_targets, lockframe>>

\* adios_insert_requests: spin_lock(&ad->lock), adios_add_rq_rb calls
\* latency_model_predict, which takes model->lock around its reads of base and
\* slope, spin_unlock(&ad->lock).
LockInsert(c) ==
    \/ /\ cpu[c].pc = "insert_lock" /\ lock_owner.ad = NoCpu
       /\ LockStep(c, "predict_lock", [lock_owner EXCEPT !.ad = c])
    \/ /\ cpu[c].pc = "predict_lock" /\ lock_owner.lock[cpu[c].t] = NoCpu
       /\ LockStep(c, "predict_read", [lock_owner EXCEPT !.lock[cpu[c].t] = c])
    \/ /\ cpu[c].pc = "predict_read"
       /\ ReadStep(c, "predict_unlock", {"base", "slope"})
    \/ /\ cpu[c].pc = "predict_unlock"
       /\ LockStep(c, "insert_unlock", [lock_owner EXCEPT !.lock[cpu[c].t] = NoCpu])
    \/ /\ cpu[c].pc = "insert_unlock"
       /\ LockStep(c, "idle", [lock_owner EXCEPT !.ad = NoCpu])

\* adios_dispatch_request: guard(spinlock)(&ad->lock); the test of
\* adios_fill_batch_queues reads ad->latency_model[optype].base.
LockDispatch(c) ==
    \/ /\ cpu[c].pc = "dispatch_lock" /\ lock_owner.ad = NoCpu
       /\ LockStep(c, "fill_test", [lock_owner EXCEPT !.ad = c])
    \/ /\ cpu[c].pc = "fill_test"
       /\ ReadStep(c, "dispatch_unlock", {"base"})
    \/ /\ cpu[c].pc = "dispatch_unlock"
       /\ LockStep(c, "idle", [lock_owner EXCEPT !.ad = NoCpu])

\* latency_model_input of a small sample: under buckets_lock it reads base for
\* the bucket index and adds the sample, then reads base again; with base zero
\* it unlocks and calls latency_model_update.
LockInput(c, latency) ==
    \/ /\ cpu[c].pc = "input_lock" /\ lock_owner.buckets_lock[cpu[c].t] = NoCpu
       /\ LockStep(c, "input_bucket", [lock_owner EXCEPT !.buckets_lock[cpu[c].t] = c])
    \/ /\ cpu[c].pc = "input_bucket"
       /\ cpu' = [cpu EXCEPT ![c].pc = "input_test"]
       /\ latency_model' =
              [latency_model EXCEPT ![cpu[c].t].small_bucket =
                   AddSample(@, SmallBucketIndex(latency_model[cpu[c].t], latency),
                             latency, 0)]
       /\ access' = Accessed(c, cpu[c].t, {"base", "buckets"})
       /\ UNCHANGED <<lock_owner, adios_latency_targets, lockframe>>
    \/ /\ cpu[c].pc = "input_test"
       /\ ReadStep(c, IF latency_model[cpu[c].t].base = 0
                      THEN "input_unlock_update" ELSE "input_unlock", {"base"})
    \/ /\ cpu[c].pc = "input_unlock"
       /\ LockStep(c, "idle", ReleasedBuckets(lock_owner, cpu[c].t))
    \/ /\ cpu[c].pc = "input_unlock_update"
       /\ cpu' = [cpu EXCEPT ![c].pc = "update_lock", ![c].bootstrap = TRUE]
       /\ lock_owner' = ReleasedBuckets(lock_owner, cpu[c].t)
       /\ access' = {}
       /\ UNCHANGED <<latency_model, adios_latency_targets, lockframe>>

\* The model after the folds of latency_model_update, made under both locks.
Folded(model, time_elapsed) ==
    ProcessLarge(ProcessSmall(model, latency_model_count_small_buckets(model),
                              time_elapsed),
                 latency_model_count_large_buckets(model), time_elapsed)

\* The model after the assignments latency_model_update makes once it has
\* released buckets_lock.
Refitted(model, small_processed, large_processed, time_elapsed, now) ==
    UpdateJiffies(UpdateSlope(UpdateBase(model, small_processed), large_processed),
                  time_elapsed, now)

\* latency_model_update: model->lock, then buckets_lock around the counts and
\* the folds, then the new base and slope under model->lock alone.
LockUpdate(c, garbage) ==
    \/ /\ cpu[c].pc = "update_lock" /\ lock_owner.lock[cpu[c].t] = NoCpu
       /\ LockStep(c, "update_lock_buckets", [lock_owner EXCEPT !.lock[cpu[c].t] = c])
    \/ /\ cpu[c].pc = "update_lock_buckets"
       /\ lock_owner.buckets_lock[cpu[c].t] = NoCpu
       /\ LockStep(c, "update_fold", [lock_owner EXCEPT !.buckets_lock[cpu[c].t] = c])
    \/ /\ cpu[c].pc = "update_fold"
       /\ cpu' = [cpu EXCEPT
                     ![c].pc = "update_unlock_buckets",
                     ![c].time_elapsed = TimeElapsed(latency_model[cpu[c].t], jiffies),
                     ![c].small_processed =
                         SmallDue(latency_model[cpu[c].t],
                                  latency_model_count_small_buckets(latency_model[cpu[c].t]),
                                  TimeElapsed(latency_model[cpu[c].t], jiffies)),
                     ![c].large_processed =
                         LargeProcessed(
                             LargeDue(latency_model[cpu[c].t],
                                      latency_model_count_large_buckets(latency_model[cpu[c].t]),
                                      TimeElapsed(latency_model[cpu[c].t], jiffies)),
                             garbage)]
       /\ latency_model' =
              [latency_model EXCEPT ![cpu[c].t] =
                   Folded(@, TimeElapsed(latency_model[cpu[c].t], jiffies))]
       /\ access' = Accessed(c, cpu[c].t, {"base", "slope", "buckets"})
       /\ UNCHANGED <<lock_owner, adios_latency_targets, lockframe>>
    \/ /\ cpu[c].pc = "update_unlock_buckets"
       /\ LockStep(c, "update_params", ReleasedBuckets(lock_owner, cpu[c].t))
    \/ /\ cpu[c].pc = "update_params"
       /\ cpu' = [cpu EXCEPT ![c].pc = "update_unlock"]
       /\ latency_model' =
              [latency_model EXCEPT ![cpu[c].t] =
                   Refitted(@, cpu[c].small_processed, cpu[c].large_processed,
                            cpu[c].time_elapsed, jiffies)]
       /\ access' = Accessed(c, cpu[c].t, {"base", "slope"})
       /\ UNCHANGED <<lock_owner, adios_latency_targets, lockframe>>
    \/ /\ cpu[c].pc = "update_unlock"
       /\ LockStep(c, "idle", [lock_owner EXCEPT !.lock[cpu[c].t] = NoCpu])

\* adios_reset_latency_model_store: guard(spinlock)(&ad->lock), and model->lock
\* around the zeroing of the parameters and the sums.
LockReset(c) ==
    \/ /\ cpu[c].pc = "reset_lock" /\ lock_owner.ad = NoCpu
       /\ LockStep(c, "reset_lock_model", [lock_owner EXCEPT !.ad = c])
    \/ /\ cpu[c].pc = "reset_lock_model" /\ lock_owner.lock[cpu[c].t] = NoCpu
       /\ LockStep(c, "reset_write", [lock_owner EXCEPT !.lock[cpu[c].t] = c])
    \/ /\ cpu[c].pc = "reset_write"
       /\ cpu' = [cpu EXCEPT ![c].pc = "reset_unlock_model"]
       /\ latency_model' =
              [latency_model EXCEPT ![cpu[c].t] = ResetModel(@)]
       /\ access' = Accessed(c, cpu[c].t, {"base", "slope"})
       /\ UNCHANGED <<lock_owner, adios_latency_targets, lockframe>>
    \/ /\ cpu[c].pc = "reset_unlock_model"
       /\ LockStep(c, "reset_unlock", [lock_owner EXCEPT !.lock[cpu[c].t] = NoCpu])
    \/ /\ cpu[c].pc = "reset_unlock"
       /\ LockStep(c, "idle", [lock_owner EXCEPT !.ad = NoCpu])

\* adios_lat_target_##name##_store: base = 0 and the new target, with no lock.
LockTargetStore(c) ==
    /\ cpu[c].pc = "target_store"
    /\ cpu' = [cpu EXCEPT ![c].pc = "idle"]
    /\ latency_model' = [latency_model EXCEPT ![cpu[c].t].base = 0]
    /\ adios_latency_targets' =
           [adios_latency_targets EXCEPT ![cpu[c].t] = TargetValue(cpu[c].t)]
    /\ access' = Accessed(c, cpu[c].t, {"base"})
    /\ UNCHANGED <<lock_owner, lockframe>>

Call == \E c \in Cpus, pc \in EntryPcs, t \in LockTypes : LockCall(c, pc, t)

InsertPath == \E c \in Cpus : LockInsert(c)

DispatchPath == \E c \in Cpus : LockDispatch(c)

InputPath == \E c \in Cpus, l \in Latencies : LockInput(c, l)

UpdatePath == \E c \in Cpus, g \in BOOLEAN : LockUpdate(c, g)

ResetPath == \E c \in Cpus : LockReset(c)

TargetPath == \E c \in Cpus : LockTargetStore(c)

NextLock ==
    \/ Call
    \/ InsertPath
    \/ DispatchPath
    \/ InputPath
    \/ UpdatePath
    \/ ResetPath
    \/ TargetPath

\* The callers of the latency model, interleaved statement by statement.
SpecLock == Init /\ [][NextLock]_vars

\* ------------------------------------------------- a recycled workload
\* Small reads only, whose tags the host frees and hands out again, so that
\* more requests pass through the pages than there are tags.

\* The one request kind of this workload: <<optype, blk_rq_bytes>>.
PageKind == <<ADIOS_READ, LM_BLOCK_SIZE_THRESHOLD>>

\* The samples a model has counted: folded ones and those in its small buckets.
SamplesCounted(model) ==
    model.small_count + latency_model_count_small_buckets(model)

\* adios_finish_request: the host frees a completed request; its tag can be
\* prepared and inserted again.
FinishRequest(o) ==
    /\ ~oops
    /\ UNCHANGED lockvars
    /\ rq[o].life = "completed"
    /\ rq' = [rq EXCEPT ![o] = FreeRq]
    /\ call' = NoCall
    /\ UNCHANGED <<dl_queue, prio_queue, batch_queue, batch_count, bq_page,
                   more_bq_ready, total_predicted_latency, latency_model,
                   timer_pending, jiffies, tunables, lm_hist, phase, oops>>

InsertPage == \E o \in OpIds : InsertRequest(o, PageKind[1], PageKind[2], FALSE)

\* Completions, with a sample while the model has counted fewer than
\* MaxPageSamples of them.
CompletePage ==
    \E o \in OpIds, io_start_time_ns \in {0, 1}, l \in Latencies, g \in BOOLEAN :
        /\ io_start_time_ns = 1 =>
               (rq[o].life = "started"
                /\ SamplesCounted(latency_model[rq[o].op]) < MaxPageSamples)
        /\ CompletedRequest(o, io_start_time_ns, l, FALSE, g)

Finish == \E o \in OpIds : FinishRequest(o)

NextPage ==
    \/ InsertPage
    \/ DispatchRequest
    \/ CompletePage
    \/ Finish

\* Insertion, dispatch, completion and the reuse of freed tags.
SpecPage == Init /\ [][NextPage]_vars

\* ------------------------------------------------------------- properties
Queued(o) == rq[o].life = "queued"

\* How many times request o stands in sequence q.
Count(q, o) == Len(SelectSeq(q, LAMBDA x : x = o))

\* How many places of the scheduler hold request o: the deadline tree, the
\* priority list and the sub-queues of both pages.
Occurrences(o) ==
    Count(dl_queue, o) + Count(prio_queue, o)
    + Count(batch_queue[0][ADIOS_READ], o) + Count(batch_queue[0][ADIOS_WRITE], o)
    + Count(batch_queue[0][ADIOS_DISCARD], o) + Count(batch_queue[0][ADIOS_OTHER], o)
    + Count(batch_queue[1][ADIOS_READ], o) + Count(batch_queue[1][ADIOS_WRITE], o)
    + Count(batch_queue[1][ADIOS_DISCARD], o) + Count(batch_queue[1][ADIOS_OTHER], o)

\* The fills of the last dispatch call that took at least one request.
SuccessfulFills == {i \in DOMAIN call.fills : call.fills[i].taken # <<>>}

\* C1: a request returned by a dispatch call was, when the call was made,
\* admitted, not absorbed by a merge and not returned by an earlier call: it was
\* still queued. No request is returned twice or invented.
C1_DispatchReturnsQueued ==
    [][(call'.dispatch /\ call'.ret # NoRq) =>
           (call'.ret \in OpIds /\ Queued(call'.ret))]_vars

\* A dispatch call returned a request after one request was absorbed by a merge
\* and another one had been returned and completed.
C1_Witness ==
    /\ call.dispatch /\ call.ret # NoRq
    /\ \E o \in OpIds : rq[o].life = "merged"
    /\ \E o \in OpIds : rq[o].life = "completed"

\* C2: earliest deadline first. The request adios_next_request returns has the
\* smallest deadline of the requests in the deadline tree.
C2_EarliestDeadlineFirst ==
    \A o \in SeqSet(dl_queue) :
        rq[adios_next_request(dl_queue)].deadline <= rq[o].deadline

\* The largest predicted latency of a single request.
MaxPredictedLatency ==
    CHOOSE m \in {rq[o].predicted_latency : o \in OpIds} :
        \A o \in OpIds : rq[o].predicted_latency <= m

\* C3 as stated: right after a fill that took at least one request, the
\* committed predicted latency (both pages and the requests in flight) exceeds
\* global_latency_window by at most the predicted latency of one request.
C3_OvershootOneOperation ==
    \A i \in SuccessfulFills :
        call.fills[i].after <= global_latency_window + MaxPredictedLatency

\* C3 amended: right after a fill that took at least one request, the committed
\* predicted latency is at most global_latency_window, unless the fill took
\* exactly one request, the first of the pass, which is taken whatever the
\* total: then it is the total before the fill plus that request's prediction.
C3_BudgetBound ==
    \A i \in SuccessfulFills :
        \/ call.fills[i].after <= global_latency_window
        \/ /\ Len(call.fills[i].taken) = 1
           /\ call.fills[i].after =
                  call.fills[i].before + rq[call.fills[i].taken[1]].predicted_latency

\* A fill made while an earlier request was in flight took a request and left
\* the committed latency above the window.
C3_Witness ==
    \E i \in SuccessfulFills :
        /\ call.fills[i].before > 0
        /\ call.fills[i].after > global_latency_window

\* C4: work conservation. A dispatch call returns no request only when no
\* request was queued at the call, and adios_has_work is false exactly when the
\* priority list, the deadline tree and both pages hold no request, that is
\* when no admitted request is still waiting.
C4_WorkConservation ==
    /\ [](adios_has_work <=> \E o \in OpIds : Queued(o))
    /\ [][(call'.dispatch /\ call'.ret = NoRq) => ~(\E o \in OpIds : Queued(o))]_vars

\* Every request was admitted and returned by a dispatch call, and a further
\* call found no work.
C4_Witness ==
    /\ call.dispatch /\ call.ret = NoRq
    /\ ~adios_has_work
    /\ \A o \in OpIds : rq[o].life \in {"started", "completed"}

\* C5: no request is dropped. A queued request stands in exactly one place of
\* the scheduler, any other request in none, and while a request is queued the
\* scheduler has not stopped: a dispatch call can still be made, and it returns
\* a request (C4), so that repeated calls return every queued request.
C5_NoOperationDropped ==
    /\ \A o \in OpIds : Occurrences(o) = IF Queued(o) THEN 1 ELSE 0
    /\ (\E o \in OpIds : Queued(o)) => ~oops

\* C6: placement exclusivity. A request stands in at most one of the deadline
\* tree, the priority list and the sub-queues of the pages, and at most once.
C6_PlacementExclusive == \A o \in OpIds : Occurrences(o) <= 1

\* One request waits in the deadline tree and another in the priority list
\* after a fill moved a third one from the tree into a page, from where a
\* dispatch call returned it.
C6_Witness ==
    \E a \in OpIds, b \in OpIds, c \in OpIds :
        /\ a \in SeqSet(dl_queue)
        /\ rq[b].life = "started" /\ rq[b].op # ADIOS_OTHER
        /\ c \in SeqSet(prio_queue)

\* Every model is cold, the priority list is empty, and the queued requests
\* are Reads of size 0 and Writes.
ColdReadsAndWrites ==
    /\ \A t \in OpTypes : latency_model[t].base = 0 /\ latency_model[t].slope = 0
    /\ prio_queue = <<>>
    /\ \A o \in OpIds :
           Queued(o) => \/ rq[o].op = ADIOS_READ /\ rq[o].bytes = 0
                        \/ rq[o].op = ADIOS_WRITE

\* C7: with every model cold, Reads of size 0 and a Write admitted at the same
\* time before the first dispatch call, the calls return the Reads in the order
\* of their admission, and a Write only when no Read is left.
C7_ReadsBeforeWrite ==
    [][(phase' = "drain" /\ call'.dispatch /\ call'.ret # NoRq /\ ColdReadsAndWrites) =>
           IF rq[call'.ret].op = ADIOS_WRITE
           THEN \A o \in OpIds : ~(Queued(o) /\ rq[o].op = ADIOS_READ)
           ELSE \A o \in OpIds : ~(o < call'.ret /\ Queued(o) /\ rq[o].op = ADIOS_READ)]_vars

\* How many of the requests in sequence q are of category t.
CountOp(q, t) == Len(SelectSeq(q, LAMBDA x : rq[x].op = t))

\* C8: one fill places at most adios_batch_size_limit[t] requests of each
\* category t into the page it fills (with the limits left alone, no page then
\* holds more than that).
C8_FillWithinLimit ==
    \A i \in DOMAIN call.fills : \A t \in OpTypes :
        CountOp(call.fills[i].taken, t) <= adios_batch_size_limit[t]

\* The sizes predict is asked about.
PredictSizes == {0, LM_BLOCK_SIZE_THRESHOLD, MaxBytes}

\* C9: after the reset command, and until a sample is observed, predict
\* returns 0 for every size and every category, through any update the timer
\* makes.
C9_ResetHoldsUntilSample ==
    lm_hist.clean =>
        \A t \in OpTypes, size \in PredictSizes :
            latency_model_predict(latency_model[t], size) = 0

\* C10: from an uninitialized model, while every sample is small with the same
\* latency L > 0, base is L after the bootstrap update and after every later
\* update, so predict of a small size returns L.
C10_UniformSmallConverges ==
    (lm_hist.uniform /\ lm_hist.bursts > 0) =>
        \A t \in LMTypes :
            /\ latency_model[t].base = lm_hist.l0
            /\ latency_model_predict(latency_model[t], LM_BLOCK_SIZE_THRESHOLD) = lm_hist.l0
            /\ latency_model_predict(latency_model[t], 0) = lm_hist.l0

\* Under uniform small samples an update, made on the sample count alone,
\* folded a trimmed histogram of at least the threshold into the model.
C10_Witness ==
    /\ lm_hist.uniform
    /\ jiffies = 0
    /\ \E t \in LMTypes :
           /\ latency_model[t].small_count > (LM_SAMPLES_THRESHOLD * LM_OUTLIER_PERCENTILE) \div 100
           /\ latency_model[t].base = lm_hist.l0

\* C11: a write of zero to a batch_size_limit attribute, or of a number outside
\* 0..100 to bq_refill_below_ratio, returns -EINVAL and changes none of the
\* tunables: the limits, the ratio, the latency targets and the window keep
\* their values.
C11_RejectedStoreKeepsTunables ==
    [][(\/ /\ call'.store.attr = "batch_size_limit"
            /\ call'.store.arg[2] = 0 /\ call'.store.arg[3] = 0
        \/ /\ call'.store.attr = "bq_refill_below_ratio"
            /\ (call'.store.arg[1] < 0 \/ call'.store.arg[1] > 100))
       => (call'.store.ret = "EINVAL" /\ tunables' = tunables)]_vars

\* A write of 101 to bq_refill_below_ratio was rejected after earlier writes
\* had changed the ratio and the Write limit from their initial values.
C11_Witness ==
    /\ call.store.attr = "bq_refill_below_ratio"
    /\ call.store.arg = <<101>>
    /\ call.store.ret = "EINVAL"
    /\ bq_refill_below_ratio = 100
    /\ adios_batch_size_limit[ADIOS_WRITE] = 1
\* C12: a request whose adios_rq_data could not be allocated is inserted,
\* dispatched and completed without a dereference of the missing
\* adios_rq_data: the kernel never traps on it, the in-flight total stays the
\* sum over the requests that have their data, and no such request stands in
\* the deadline tree.
C12_NoDataNoDereference ==
    /\ (\E o \in OpIds : ~rq[o].rd) => ~oops
    /\ \A o \in OpIds : ~rq[o].rd => o \notin SeqSet(dl_queue)
\* C13: a dispatch call made while the priority list is not empty returns the
\* request at the head of that list and takes it off the list; the deadline
\* tree, both pages and their counts, the active page, more_bq_ready and the
\* in-flight total stay as they were, and the call neither fills nor flips.
C13_PriorityLaneBypass ==
    [][(call'.dispatch /\ prio_queue # <<>>) =>
           /\ call'.ret = Head(prio_queue)
           /\ prio_queue' = Tail(prio_queue)
           /\ call'.fills = <<>> /\ call'.flips = 0
           /\ UNCHANGED <<dl_queue, batch_queue, batch_count, bq_page,
                          more_bq_ready, total_predicted_latency>>]_vars

\* A dispatch call returned a request from the priority list while a request
\* with a learned prediction waited in the deadline tree.
C13_Witness ==
    /\ call.dispatch /\ call.ret # NoRq
    /\ rq[call.ret].op = ADIOS_OTHER
    /\ call.fills = <<>>
    /\ dl_queue # <<>>
    /\ \E o \in SeqSet(dl_queue) : rq[o].predicted_latency > 0
\* C14: a fill pass stops for the latency window only after it has taken the
\* request whose predicted latency carried the total over the window. So when
\* a pass that took a request left in the tree a request of a category with a
\* base and with room under its batch size limit, the total after the pass is
\* above the window.
C14_CrossingRequestTaken ==
    \A i \in SuccessfulFills :
        (/\ dl_queue # <<>>
         /\ latency_model[rq[Head(dl_queue)].op].base # 0
         /\ batch_count[call.fills[i].page][rq[Head(dl_queue)].op]
                < adios_batch_size_limit[rq[Head(dl_queue)].op])
        => call.fills[i].after > global_latency_window
\* C15: a fill pass that finds a request in the deadline tree takes the first
\* one, rb_first of the tree, whatever its category and the totals; a request
\* it takes second or later is of a category whose model has a base. The
\* requests it does not take stay in the tree.
C15_ColdStartThrottled ==
    [][call'.dispatch =>
           \A i \in DOMAIN call'.fills :
               /\ call'.fills[i].taken = <<>> => dl_queue = <<>>
               /\ call'.fills[i].taken # <<>> =>
                      call'.fills[i].taken[1] = Head(dl_queue)
               /\ \A k \in 2 .. Len(call'.fills[i].taken) :
                      latency_model[rq[call'.fills[i].taken[k]].op].base # 0
               /\ SeqSet(dl_queue') = SeqSet(dl_queue) \ SeqSet(call'.fills[i].taken)]_vars

\* A fill pass took a Write, whose model has a base, and stopped at a Read,
\* whose model has none, with the total still within the window: the Read
\* stays in the tree.
C15_Witness ==
    /\ call.dispatch
    /\ \E i \in DOMAIN call.fills :
           /\ Len(call.fills[i].taken) = 1
           /\ rq[call.fills[i].taken[1]].op = ADIOS_WRITE
           /\ call.fills[i].after <= global_latency_window
    /\ latency_model[ADIOS_WRITE].base # 0
    /\ latency_model[ADIOS_READ].base = 0
    /\ dl_queue # <<>>
    /\ rq[Head(dl_queue)].op = ADIOS_READ
\* The sizes around the block size threshold and between two multiples of
\* 1024 above it.
ProbeSizes ==
    {0, LM_BLOCK_SIZE_THRESHOLD, LM_BLOCK_SIZE_THRESHOLD + 1,
     LM_BLOCK_SIZE_THRESHOLD + 1024, LM_BLOCK_SIZE_THRESHOLD + 1025, MaxBytes}

\* The bytes of a request above the block size threshold.
BytesAbove(size) ==
    IF size > LM_BLOCK_SIZE_THRESHOLD THEN size - LM_BLOCK_SIZE_THRESHOLD ELSE 0

\* C16: for every size and every base and slope the model reaches, predict
\* returns base + slope * ceil(max(0, size - 4096) / 1024): the bytes above the
\* threshold count in units of 1024 rounded up, so a size above the threshold
\* adds at least one slope.
C16_PredictRoundsUp ==
    \A t \in LMTypes, size \in ProbeSizes :
        latency_model_predict(latency_model[t], size) =
            latency_model[t].base
            + latency_model[t].slope * DIV_ROUND_UP(BytesAbove(size), 1024)
\* C17: the recording of a sample never divides by zero, whatever the sample
\* and the prediction the request carries, a large request inserted before the
\* model had a base and completed after it included, and every bucket that
\* holds a sample has an index in 0 .. LM_NUM_BUCKETS - 1.
C17_BucketSelectionTotal ==
    /\ ~oops
    /\ \A t \in OpTypes :
           /\ DOMAIN latency_model[t].small_bucket \subseteq 0 .. LM_NUM_BUCKETS - 1
           /\ DOMAIN latency_model[t].large_bucket \subseteq 0 .. LM_NUM_BUCKETS - 1
\* The number of samples a fold of total samples takes: all of them while the
\* base is zero, 99 in 100 rounded down afterwards.
FoldedCount(total, base) ==
    IF base = 0 THEN total ELSE (total * LM_OUTLIER_PERCENTILE) \div 100

\* The first bucket, in index order, at which the running count reaches n.
CutoffBucket(b, n) ==
    CHOOSE i \in 0 .. (LM_NUM_BUCKETS - 1) :
        /\ Cumulative(b, i) >= n
        /\ \A j \in 0 .. (i - 1) : Cumulative(b, j) < n

\* The latency sum of the first n samples in bucket order: the buckets before
\* the cutoff bucket c whole, and of bucket c sum_latency * remaining / count,
\* with remaining the samples still missing when c is reached.
FoldedSum(b, n, c) ==
    SumField(b, {j \in DOMAIN b : j < c}, "sum_latency")
    + IF BucketAt(b, c).count = 0 THEN 0
      ELSE (BucketAt(b, c).sum_latency
            * (n - SumField(b, {j \in DOMAIN b : j < c}, "count")))
           \div BucketAt(b, c).count

\* What a fold of the small buckets b makes of a model m.
SmallFolded(m, b, n) ==
    [small_count |-> m.small_count + n,
     small_sum_delay |->
         m.small_sum_delay
         + IF m.base = 0 THEN SumField(b, DOMAIN b, "sum_latency")
           ELSE FoldedSum(b, n, CutoffBucket(b, n))]

\* The small side of model n is what a fold of model m's T samples leaves.
SmallFoldExact(m, n, T) ==
    /\ n.small_bucket = NoBuckets
    /\ T > 0
    /\ n.small_count = SmallFolded(m, m.small_bucket, FoldedCount(T, m.base)).small_count
    /\ n.small_sum_delay =
           SmallFolded(m, m.small_bucket, FoldedCount(T, m.base)).small_sum_delay

\* The small side of model n is that of model m.
SmallUntouched(m, n) ==
    /\ n.small_bucket = m.small_bucket
    /\ n.small_count = m.small_count
    /\ n.small_sum_delay = m.small_sum_delay

SmallFoldedIn(t) ==
    latency_model[t].small_bucket # NoBuckets
    /\ latency_model'[t].small_bucket = NoBuckets

\* The step folded the large buckets of category t.
LargeFoldedIn(t) ==
    latency_model[t].large_bucket # NoBuckets
    /\ latency_model'[t].large_bucket = NoBuckets

\* The interval of LM_INTERVAL_THRESHOLD has passed since the model's last
\* update on time.
IntervalPassed(t) ==
    latency_model[t].last_updated_jiffies + LM_INTERVAL_THRESHOLD <= jiffies

\* C19 as stated: once the base of a model is set its small buckets are folded
\* only when they hold at least LM_SAMPLES_THRESHOLD samples, and once the
\* slope is set its large buckets likewise; fewer samples are folded only
\* while the parameter is zero.
C19_MinimumSamples ==
    [][\A t \in OpTypes :
           /\ (SmallFoldedIn(t) /\ latency_model[t].base # 0) =>
                  BucketCount(latency_model[t].small_bucket) >= LM_SAMPLES_THRESHOLD
           /\ (LargeFoldedIn(t) /\ latency_model[t].slope # 0) =>
                  BucketCount(latency_model[t].large_bucket) >= LM_SAMPLES_THRESHOLD]_vars

\* C19 amended: once the base is set, small buckets with fewer than
\* LM_SAMPLES_THRESHOLD samples are folded only when the interval has passed
\* since the last update on time; once the slope is set, large buckets with
\* fewer samples are folded only when the interval has passed or the base is
\* zero.
C19_MinimumSamplesOrInterval ==
    [][\A t \in OpTypes :
           /\ (/\ SmallFoldedIn(t) /\ latency_model[t].base # 0
               /\ BucketCount(latency_model[t].small_bucket) < LM_SAMPLES_THRESHOLD)
              => IntervalPassed(t)
           /\ (/\ LargeFoldedIn(t) /\ latency_model[t].slope # 0
               /\ BucketCount(latency_model[t].large_bucket) < LM_SAMPLES_THRESHOLD)
              => (IntervalPassed(t) \/ latency_model[t].base = 0)]_vars

\* With no reset and only small samples of one latency, the model holds two
\* samples after an update on time: the bootstrap sample, and one of the two
\* samples that the timer folded, with the base set, after the interval.
C19_Witness ==
    /\ lm_hist.uniform
    /\ jiffies = TickMs
    /\ \E t \in LMTypes :
           /\ latency_model[t].base # 0
           /\ latency_model[t].last_updated_jiffies = jiffies
           /\ latency_model[t].small_bucket = NoBuckets
           /\ latency_model[t].small_count = 2
\* C20: after a front merge into request r, r stands in the deadline tree
\* exactly once and in no list, its block_size is its size after the merge,
\* its predicted_latency is what predict returns for that size under the
\* model as it is now, and its deadline is start_time_ns + the latency target
\* of its category + that prediction; every other request keeps its data, and
\* the other requests of the tree keep their order.
C20_FrontMergeRepositions ==
    [][call'.front # NoRq =>
           /\ Count(dl_queue', call'.front) = 1
           /\ UNCHANGED <<prio_queue, batch_queue>>
           /\ rq'[call'.front].bytes = rq[call'.front].bytes + BioBytes
           /\ rq'[call'.front].block_size = rq'[call'.front].bytes
           /\ rq'[call'.front].predicted_latency =
                  latency_model_predict(latency_model'[rq'[call'.front].op],
                                        rq'[call'.front].bytes)
           /\ rq'[call'.front].deadline =
                  rq'[call'.front].start_time_ns
                  + adios_latency_targets'[rq'[call'.front].op]
                  + rq'[call'.front].predicted_latency
           /\ \A o \in OpIds \ {call'.front} : rq'[o] = rq[o]
           /\ SeqRemove(dl_queue', call'.front) = SeqRemove(dl_queue, call'.front)]_vars

\* A front merge gave a request, inserted while its model was cold, the
\* prediction of the model as it is now, while another request of the same
\* category in the tree keeps the prediction of zero made at its insertion.
C20_Witness ==
    /\ call.front # NoRq
    /\ rq[call.front].predicted_latency > 0
    /\ \E o \in SeqSet(dl_queue) \ {call.front} :
           /\ rq[o].op = rq[call.front].op
           /\ rq[o].predicted_latency = 0
\* The active page holds no request.
ActivePageEmpty == \A t \in OpTypes : batch_queue[bq_page][t] = <<>>

\* The condition of the ahead-of-time refill, as the call reads it.
RefillCondition ==
    ~more_bq_ready
    /\ total_predicted_latency < (global_latency_window * bq_refill_below_ratio) \div 100

\* C21: a dispatch call ends after at most one fill and at most two flips.
\* When the priority list is empty and more_bq_ready is false with the
\* in-flight total below bq_refill_below_ratio percent of the window, the one
\* fill is the ahead-of-time refill; otherwise a fill is made only with the
\* active page empty and more_bq_ready false.
C21_OneFillTwoFlips ==
    [][call'.dispatch =>
           /\ Len(call'.fills) <= 1
           /\ call'.flips <= 2
           /\ (RefillCondition /\ prio_queue = <<>>) => Len(call'.fills) = 1
           /\ (~RefillCondition /\ Len(call'.fills) = 1) =>
                  (ActivePageEmpty /\ ~more_bq_ready /\ prio_queue = <<>>)]_vars

\* A dispatch call that could not refill ahead of time, a request being in
\* flight, found the active page empty, filled once, flipped once and returned
\* a request.
C21_Witness ==
    /\ call.dispatch /\ call.ret # NoRq
    /\ Len(call.fills) = 1
    /\ call.flips = 1
    /\ call.fills[1].before >= (global_latency_window * bq_refill_below_ratio) \div 100
\* The requests of category t among those a call's fills put on page p, in the
\* order they were taken.
FilledOn(fills, p, t) ==
    IF fills = <<>> \/ fills[1].page # p THEN <<>>
    ELSE SelectSeq(fills[1].taken, LAMBDA o : rq[o].op = t)

\* C22: a request a dispatch call returns from a page is the first, in fill
\* order, of its category's sub-queue of the page that is active when the call
\* ends, and every sub-queue of that page that comes earlier in the
\* enumeration Read, Write, Discard, Other is empty.
C22_CategoryThenFifo ==
    [][(call'.dispatch /\ call'.ret # NoRq /\ prio_queue = <<>>) =>
           /\ \A t \in OpTypes :
                  t < rq[call'.ret].op => batch_queue'[bq_page'][t] = <<>>
           /\ batch_queue[bq_page'][rq[call'.ret].op]
              \o FilledOn(call'.fills, bq_page', rq[call'.ret].op)
              = <<call'.ret>> \o batch_queue'[bq_page'][rq[call'.ret].op]]_vars

\* A fill took a Write and then a Read, and the dispatch call returned the Read
\* while the Write, filled before it, waits in the active page.
C22_Witness ==
    /\ call.dispatch /\ call.ret # NoRq
    /\ rq[call.ret].op = ADIOS_READ
    /\ Len(call.fills) = 1
    /\ Len(call.fills[1].taken) = 2
    /\ call.fills[1].taken[2] = call.ret
    /\ batch_queue[bq_page][ADIOS_WRITE] = <<call.fills[1].taken[1]>>
\* Request o stands in a sub-queue of one of the two pages.
InPage(o) ==
    \E p \in Pages : \E t \in OpTypes : o \in SeqSet(batch_queue[p][t])

\* The requests a fill has taken and that are not completed: those in a page
\* and those a dispatch call returned from a page.
Outstanding ==
    {o \in OpIds : InPage(o) \/ (rq[o].life = "started" /\ rq[o].op # ADIOS_OTHER)}

RECURSIVE SumPredicted(_)
\* The sum of rd->predicted_latency over the requests of set S.
SumPredicted(S) ==
    IF S = {} THEN 0
    ELSE LET o == CHOOSE x \in S : TRUE
         IN rq[o].predicted_latency + SumPredicted(S \ {o})

\* C23: total_predicted_latency is the sum of predicted_latency over the
\* requests in the two pages and the requests returned from a page and not yet
\* completed: a fill adds a request's prediction once, its completion takes the
\* same amount off once, with or without a sample. It is never negative and is
\* zero when no such request is outstanding. A request returned from the
\* priority list carries a prediction of zero and changes nothing.
C23_InFlightAccounting ==
    /\ total_predicted_latency = SumPredicted(Outstanding)
    /\ total_predicted_latency >= 0
    /\ Outstanding = {} => total_predicted_latency = 0
    /\ \A o \in OpIds :
           (rq[o].life = "started" /\ rq[o].op = ADIOS_OTHER) =>
               rq[o].predicted_latency = 0

\* One request with a learned prediction waits in a page while another is in
\* flight, and the total covers both.
C23_Witness ==
    \E a \in OpIds, b \in OpIds :
        /\ InPage(a) /\ rq[a].predicted_latency > 0
        /\ rq[b].life = "started" /\ rq[b].predicted_latency > 0
        /\ total_predicted_latency =
               rq[a].predicted_latency + rq[b].predicted_latency
\* C24: whoever reads or writes the base or the slope of a model holds that
\* model's lock, and whoever reads or writes its buckets holds its
\* buckets_lock.
C24_LockDiscipline ==
    \A a \in access :
        /\ a.field \in {"base", "slope"} => "lock" \in a.held
        /\ a.field = "buckets" => "buckets_lock" \in a.held

\* The place of a spinlock in the order ad->lock, model->lock,
\* model->buckets_lock.
LockRank(l) ==
    CASE l = "ad" -> 1
      [] l = "lock" -> 2
      [] l = "buckets_lock" -> 3

\* The spinlock that the next statement of caller c acquires.
Wanted(c) ==
    CASE cpu[c].pc \in {"insert_lock", "dispatch_lock", "reset_lock"} -> "ad"
      [] cpu[c].pc \in {"predict_lock", "update_lock", "reset_lock_model"} -> "lock"
      [] cpu[c].pc \in {"input_lock", "update_lock_buckets"} -> "buckets_lock"
      [] OTHER -> "none"

\* Who holds spinlock l of ad or of model t.
Owner(l, t) ==
    CASE l = "ad" -> lock_owner.ad
      [] l = "lock" -> lock_owner.lock[t]
      [] l = "buckets_lock" -> lock_owner.buckets_lock[t]

\* Caller c spins on a held spinlock.
Blocked(c) ==
    /\ Wanted(c) # "none"
    /\ Owner(Wanted(c), cpu[c].t) # NoCpu

\* C27: a caller that asks for a spinlock holds only spinlocks that come
\* before it in the order ad->lock, model->lock, buckets_lock (so none is
\* taken out of order or taken twice), and while some caller is inside a path
\* at least one caller inside a path is not spinning.
C27_DeadlockFree ==
    /\ \A c \in Cpus :
           Wanted(c) # "none" =>
               \A l \in LocksHeld(c, cpu[c].t) : LockRank(l) < LockRank(Wanted(c))
    /\ (\E c \in Cpus : cpu[c].pc # "idle") =>
           \E c \in Cpus : cpu[c].pc # "idle" /\ ~Blocked(c)

\* An insert holds ad->lock and spins on model->lock while an update holds
\* model->lock and buckets_lock: all three spinlocks are held and one caller
\* waits.
C27_Witness ==
    \E c, d \in Cpus :
        /\ c # d
        /\ cpu[c].pc = "predict_lock"
        /\ Blocked(c)
        /\ LocksHeld(c, cpu[c].t) = {"ad"}
        /\ cpu[d].pc = "update_fold"
        /\ cpu[d].t = cpu[c].t
        /\ LocksHeld(d, cpu[d].t) = {"lock", "buckets_lock"}

\* The number of requests in the sub-queues of page p.
PageLen(p) ==
    Len(batch_queue[p][ADIOS_READ]) + Len(batch_queue[p][ADIOS_WRITE])
    + Len(batch_queue[p][ADIOS_DISCARD]) + Len(batch_queue[p][ADIOS_OTHER])

\* The page that is not the active one.
OtherPage == (bq_page + 1) % ADIOS_NUM_BQ_PAGES

\* more_bq_ready false means the inactive page is empty, and each batch count
\* covers the requests of its sub-queue.
PagesConsistent ==
    /\ ~more_bq_ready => PageLen(OtherPage) = 0
    /\ \A p \in Pages : \A t \in OpTypes :
           batch_count[p][t] >= Len(batch_queue[p][t])

\* A dispatch call fills only an empty page, flips only away from an empty
\* active page, and returns a request of the active page while that page holds
\* one.
DispatchKeepsPages ==
    call'.dispatch =>
        /\ \A i \in 1 .. Len(call'.fills) : call'.fills[i].held = 0
        /\ call'.flips >= 1 => ActivePageEmpty
        /\ (call'.ret # NoRq /\ prio_queue = <<>> /\ ~ActivePageEmpty) =>
               /\ bq_page' = bq_page
               /\ \E t \in OpTypes : call'.ret \in SeqSet(batch_queue[bq_page][t])

\* C25: more_bq_ready == false implies that the inactive page holds no
\* request; batch_count[page][c] is at least the number of category-c requests
\* in the page; every fill starts on an empty page; a flip happens only when
\* the active page is empty; and while the active page holds a request a
\* dispatch call returns none of the other page.
C25_FillTargetsEmptyPage ==
    [][PagesConsistent /\ PagesConsistent' /\ DispatchKeepsPages]_vars

\* A dispatch call filled the empty inactive page ahead of time while the
\* active page still held a request, and returned the request of the active
\* page without flipping: the filled page waits with more_bq_ready set.
C25_Witness ==
    /\ call.dispatch /\ call.ret # NoRq
    /\ call.flips = 0
    /\ Len(call.fills) = 1
    /\ call.fills[1].taken # <<>>
    /\ call.fills[1].held = 0
    /\ more_bq_ready
    /\ PageLen(OtherPage) >= 1

\* The measured latencies the bucket index is probed with.
ProbeLatencies == 0 .. MaxProbeLatency

\* C26: with the base the model has learned as the reference, the clamped
\* bucket index of a small sample does not decrease when the measured latency
\* grows, across the three ranges below 2x, from 2x to 5x and from 5x on.
C26_BucketIndexMonotone ==
    \A t \in LMTypes : \A m1 \in ProbeLatencies, m2 \in ProbeLatencies :
        (latency_model[t].base # 0 /\ m1 <= m2) =>
            SmallBucketIndex(latency_model[t], m1)
                <= SmallBucketIndex(latency_model[t], m2)

\* C28: whatever numbers are written to the batch_size_limit attributes,
\* accepted or rejected, a number of 2^32 or more included, every
\* adios_batch_size_limit[optype] stays at least 1.
C28_LimitNeverZero ==
    \A t \in OpTypes : adios_batch_size_limit[t] >= 1
====
